---------------------------- MODULE Spec2Model ----------------------------
(* A model of src/client.rs, the client half of the rathole reverse proxy. *)
(*                                                                         *)
(* Two specifications share the module.  Spec is the control plane: the    *)
(* supervisor (Client::run), the control-channel workers it spawns         *)
(* (ControlChannelHandle::new, ControlChannel::run) and the handshake of   *)
(* the data-channel workers they spawn (do_data_channel_handshake).        *)
(* DataSpec is one data-channel worker after its handshake                 *)
(* (run_data_channel): the TCP splice, and the UDP demultiplexer with its  *)
(* port map, its reader-writer lock, its forwarders and its writer task.   *)
EXTENDS Integers, Sequences, FiniteSets, TLC

(***************************************************************************)
(* Bounds of the model.                                                    *)
(***************************************************************************)
\* ControlChannelHandle::new calls over the whole run
MaxWorkers == 2
\* CreateDataChannel commands served over the whole run
MaxData == 1

\* events of service_rx that call for nothing, handled over the whole run
MaxIgnored == 1

Names == {"ssh", "dns"}
Workers == 1..MaxWorkers
DataWorkers == 1..MaxData
\* the nonces a server may put in its hello
Nonces == {1, 2}
\* UdpTraffic frames the server sends on one UDP data channel
MaxFrames == 3
\* datagrams the local service replies on one UDP data channel
MaxReplies == 3
\* depth of the inbound and outbound channels (crate::constants, scaled down)
UDP_SENDQ_SIZE == 2

\* protocol::CURRENT_PROTO_VERSION, and the versions a server may speak
CURRENT_PROTO_VERSION == 1
ProtoVersions == {CURRENT_PROTO_VERSION, CURRENT_PROTO_VERSION + 1}

\* the frames a server may send on a control connection before it is established
NoFrame == [variant |-> "none", version |-> 0, nonce |-> 0]
HelloFrames ==
    [variant : {"ControlChannelHello", "DataChannelHello"}, version : ProtoVersions,
     nonce : Nonces]
AckFrames == {[variant |-> a, version |-> 0, nonce |-> 0] : a \in {"Ack::Ok", "Ack::AuthFailed"}}

Visitors == {1, 2}
Fwds == 1..MaxFrames
NoPkt == [from |-> 0, data |-> 0]

(***************************************************************************)
(* The control plane's state.                                              *)
(***************************************************************************)
VARIABLES
    sup_pc,           \* run_client: "init", "running" (the select loop), "returned"
    run_result,       \* what run_client returned: "none", "Ok", "Err"
    sup_val,          \* the val of shutdown_rx.recv(): "none", "Ok", "Err"
    service_handles,  \* Client.service_handles: name -> worker whose handle it holds, 0: no entry
    spawned,          \* control-channel workers spawned so far
    cc_name,          \* worker -> service.name
    cc_pc,            \* worker -> the await it is at
    shutdown,         \* worker -> state of its one-shot: "Empty", "Sent", "Closed"
    session_key,      \* worker -> session_key of the current connection, 0: none
    cc_err,           \* worker -> the err of the run() it sleeps after, "none" otherwise
    cc_wire,          \* worker -> the frame the server has sent on its connection, not yet read
    ignored,          \* events of service_rx the supervisor has handled by doing nothing
    ncmd,             \* CreateDataChannel commands read so far
    dspawned,         \* data-channel workers spawned so far
    dc_parent,        \* data worker -> the control-channel worker that spawned it
    dc_key,           \* data worker -> args.session_key
    dc_pc,            \* data worker -> "unborn", "dial", "read_cmd", "forward", "done", "failed"
    dc_hello          \* data worker -> the session_key of the DataChannelHello it sent, 0: none

ctlvars == <<sup_pc, run_result, sup_val, service_handles, spawned, cc_name, cc_pc,
             shutdown, session_key, cc_err, cc_wire, ignored, ncmd,
             dspawned, dc_parent, dc_key, dc_pc, dc_hello>>

supvars == <<sup_pc, run_result, sup_val, service_handles, ignored>>
datavars == <<ncmd, dspawned, dc_parent, dc_key, dc_pc, dc_hello>>

(***************************************************************************)
(* The state of one data-channel worker after its handshake.               *)
(***************************************************************************)
VARIABLES
    dw_pc,        \* run_data_channel: the await the worker's main task is at
    dw_result,    \* what run_data_channel returned: "none", "Ok", "Err"
    dw_log,       \* the errors logged with error!
    pkt,          \* the UdpTraffic the reader loop is handling
    nread,        \* frames read from the server so far
    port_map,     \* UdpPortMap: visitor -> forwarder holding the receiver of its sender, 0: no entry
    rw_readers,   \* read guards of the port map's lock the reader loop holds
    rw_writer,    \* whether the reader loop holds the write guard
    rw_queue,     \* tasks awaiting the lock, first in first out; 0: the reader loop
    nfwd,         \* forwarders spawned so far
    fw_pc,        \* forwarder -> "unborn", "loop", "out_send", "evict", "returned"
    fw_from,      \* forwarder -> its visitor address
    fw_result,    \* forwarder -> "none", "Ok", "Err"
    fw_hold,      \* forwarder -> the reply it is sending to the outbound channel, 0: none
    fw_idle,      \* the forwarders that left their loop on the idle timeout
    inbound,      \* forwarder -> its inbound channel
    outbound,     \* the outbound channel of UdpTraffic
    wr_pc,        \* the writer task: "unborn", "run", "exited"
    wire_out,     \* the UdpTraffic written to the server
    sock_out,     \* visitor -> the payloads written to its local socket
    nreply,       \* datagrams the local service has replied so far
    conn_failed,  \* payloads of the frames whose udp_connect failed
    sock_failed   \* payloads whose send on the local socket failed

dpvars == <<dw_pc, dw_result, dw_log, pkt, nread, port_map, rw_readers, rw_writer,
            rw_queue, nfwd, fw_pc, fw_from, fw_result, fw_hold, fw_idle, inbound, outbound,
            wr_pc, wire_out, sock_out, nreply, conn_failed, sock_failed>>

vars == <<ctlvars, dpvars>>

(***************************************************************************)
(* protocol::digest and the byte concatenation it is applied to.  Tokens,  *)
(* nonces and digests are small numbers; Concat pairs them and Digest      *)
(* scrambles the pair injectively on the model's range.                    *)
(***************************************************************************)
Token(name) == IF name = "ssh" THEN 1 ELSE 2

\* the nonce put before the token
ConcatNonceFirst(token, nonce) == nonce * 4 + token

Concat(token, nonce) == token * 4 + nonce

Digest(x) == ((x * 7) % 17) + 1

SessionKey(name, nonce) == Digest(Concat(Token(name), nonce))

(***************************************************************************)
(* The one-shot of a handle.                                               *)
(***************************************************************************)
\* a handle kept alive although it left the map
DropHandleLeak(sd, w) == sd

\* Dropping a ControlChannelHandle drops its shutdown_tx: the one-shot closes.
DropHandle(sd, w) ==
    IF w = 0 THEN sd ELSE [sd EXCEPT ![w] = "Closed"]

\* ControlChannelHandle::shutdown: send(0); a send to a dropped receiver fails
\* and is ignored.
ShutdownHandle(sd, w) ==
    IF cc_pc[w] = "exited" THEN sd ELSE [sd EXCEPT ![w] = "Sent"]

RECURSIVE DrainHandles(_, _)
DrainHandles(sd, ws) ==
    IF ws = {} THEN sd
    ELSE LET w == CHOOSE x \in ws : TRUE
         IN DrainHandles(ShutdownHandle(sd, w), ws \ {w})

\* shutdown_rx.try_recv() != Err(TryRecvError::Empty)
Signalled(w) == shutdown[w] # "Empty"

Live(w) == cc_pc[w] \notin {"unborn", "exited"}

(***************************************************************************)
(* Init: before run_client is called.                                      *)
(***************************************************************************)
CtlInit ==
    /\ sup_pc = "init"
    /\ run_result = "none"
    /\ sup_val = "none"
    /\ service_handles = [n \in Names |-> 0]
    /\ spawned = 0
    /\ cc_name = [w \in Workers |-> "-"]
    /\ cc_pc = [w \in Workers |-> "unborn"]
    /\ shutdown = [w \in Workers |-> "Empty"]
    /\ session_key = [w \in Workers |-> 0]
    /\ cc_err = [w \in Workers |-> "none"]
    /\ cc_wire = [w \in Workers |-> NoFrame]
    /\ ignored = 0
    /\ ncmd = 0
    /\ dspawned = 0
    /\ dc_parent = [d \in DataWorkers |-> 0]
    /\ dc_key = [d \in DataWorkers |-> 0]
    /\ dc_pc = [d \in DataWorkers |-> "unborn"]
    /\ dc_hello = [d \in DataWorkers |-> 0]


(***************************************************************************)
(* The supervisor: run_client and Client::run.                             *)
(***************************************************************************)
\* ControlChannelHandle::new: a fresh one-shot and a spawned worker about to
\* call run(), which first awaits transport.connect.
NewWorker(w, name) ==
    /\ cc_name' = [cc_name EXCEPT ![w] = name]
    /\ cc_pc' = [cc_pc EXCEPT ![w] = "dial"]

\* run_client with no [client] block, or with a transport that cannot be built.
RunClientFail ==
    /\ sup_pc = "init"
    /\ \E why \in {"config", "transport"} :
          /\ sup_pc' = "returned"
          /\ run_result' = "Err"
    /\ UNCHANGED <<sup_val, service_handles, ignored, spawned, cc_name, cc_pc, shutdown,
                   session_key, cc_err, cc_wire, datavars, dpvars>>

\* Client::run up to its select loop: one handle per configured service.
RunClientStart ==
    /\ sup_pc = "init"
    /\ \E services \in SUBSET Names :
          LET n == Cardinality(services)
              \* the order the config's map is iterated in
              order == CHOOSE f \in [1..n -> services] : \A i, j \in 1..n : i # j => f[i] # f[j]
          IN /\ n <= MaxWorkers
             /\ spawned' = n
             /\ cc_name' = [w \in Workers |-> IF w <= n THEN order[w] ELSE cc_name[w]]
             /\ cc_pc' = [w \in Workers |-> IF w <= n THEN "dial" ELSE cc_pc[w]]
             /\ service_handles' = [s \in Names |->
                    IF s \in services THEN CHOOSE w \in 1..n : order[w] = s ELSE 0]
    /\ sup_pc' = "running"
    /\ UNCHANGED <<run_result, sup_val, ignored, shutdown, session_key, cc_err, cc_wire,
                   datavars, dpvars>>

\* ServiceChange::ClientAdd(s): a new handle is made, then inserted; the insert
\* returns the previous handle of the name, which is dropped.
ClientAdd(name) ==
    /\ sup_pc = "running"
    /\ spawned < MaxWorkers
    /\ LET w == spawned + 1
       IN /\ spawned' = w
          /\ NewWorker(w, name)
          /\ shutdown' = DropHandle(shutdown, service_handles[name])
          /\ service_handles' = [service_handles EXCEPT ![name] = w]
    /\ UNCHANGED <<sup_pc, run_result, sup_val, ignored, session_key, cc_err, cc_wire,
                   datavars, dpvars>>

\* ServiceChange::ClientDelete(s): the handle of the name, if any, is removed
\* and dropped; with no handle of that name nothing is done.
ClientDelete(name) ==
    /\ sup_pc = "running"
    /\ service_handles[name] = 0 => ignored < MaxIgnored
    /\ ignored' = IF service_handles[name] = 0 THEN ignored + 1 ELSE ignored
    /\ shutdown' = DropHandle(shutdown, service_handles[name])
    /\ service_handles' = [service_handles EXCEPT ![name] = 0]
    /\ UNCHANGED <<sup_pc, run_result, sup_val, spawned, cc_name, cc_pc, session_key,
                   cc_err, cc_wire, datavars, dpvars>>

\* a closed service_rx taken for the end of the run
EventEndsLoopOnNone(e) == e = "None"

\* Whether service_rx.recv() yielding e ends the select loop: no event does.
EventEndsLoop(e) == FALSE

\* an unknown ServiceChange handled as the removal of a service
OtherEventAsDelete ==
    /\ sup_pc = "running"
    /\ ignored < MaxIgnored
    /\ ignored' = ignored + 1
    /\ \E name \in Names :
          /\ shutdown' = DropHandle(shutdown, service_handles[name])
          /\ service_handles' = [service_handles EXCEPT ![name] = 0]
    /\ UNCHANGED <<sup_pc, run_result, sup_val, spawned, cc_name, cc_pc, session_key,
                   cc_err, cc_wire, datavars, dpvars>>

\* Any other ServiceChange, or None from a closed service_rx: nothing happens
\* and the loop goes on.
OtherEvent ==
    /\ sup_pc = "running"
    /\ ignored < MaxIgnored
    /\ ignored' = ignored + 1
    /\ \E e \in {"Other", "None"} :
          IF EventEndsLoop(e)
          THEN /\ sup_pc' = "returned"
               /\ run_result' = "Ok"
               /\ shutdown' = DrainHandles(shutdown, {service_handles[s] : s \in Names} \ {0})
               /\ service_handles' = [s \in Names |-> 0]
          ELSE UNCHANGED <<sup_pc, run_result, shutdown, service_handles>>
    /\ UNCHANGED <<sup_val, spawned, cc_name, cc_pc, session_key, cc_err, cc_wire,
                   datavars, dpvars>>

\* shutdown_rx.recv() returns, Ok or Err: break, drain the map calling
\* shutdown() on every handle, return Ok.
ShutdownRecv ==
    /\ sup_pc = "running"
    /\ \E val \in {"Ok", "Err"} : sup_val' = val
    /\ shutdown' = DrainHandles(shutdown, {service_handles[s] : s \in Names} \ {0})
    /\ service_handles' = [s \in Names |-> 0]
    /\ sup_pc' = "returned"
    /\ run_result' = "Ok"
    /\ UNCHANGED <<ignored, spawned, cc_name, cc_pc, session_key, cc_err, cc_wire,
                   datavars, dpvars>>


(***************************************************************************)
(* A control-channel worker: the retry loop of ControlChannelHandle::new   *)
(* around ControlChannel::run.                                             *)
(***************************************************************************)
\* a worker that gives up when the server rejects its authentication
AfterRunErrGiveUpOnAuth(w, err) ==
    IF Signalled(w) \/ err = "auth" THEN "exited" ELSE "backoff"

\* run() returned Err(err): the worker ends if its one-shot is not Empty, and
\* otherwise sleeps one second.
AfterRunErr(w, err) ==
    IF Signalled(w) THEN "exited" ELSE "backoff"

RunErr(w, err) ==
    /\ cc_pc' = [cc_pc EXCEPT ![w] = AfterRunErr(w, err)]
    /\ cc_err' = [cc_err EXCEPT ![w] = IF AfterRunErr(w, err) = "backoff" THEN err ELSE "none"]
    /\ session_key' = [session_key EXCEPT ![w] = 0]
    /\ cc_wire' = [cc_wire EXCEPT ![w] = NoFrame]

\* transport.connect returns and, connected, the worker writes its
\* ControlChannelHello and flushes.
CcConnect(w) ==
    /\ cc_pc[w] = "dial"
    /\ \E r \in {"ok", "connect_err", "write_err"} :
          IF r = "ok"
          THEN /\ cc_pc' = [cc_pc EXCEPT ![w] = "read_hello"]
               /\ UNCHANGED <<cc_err, session_key, cc_wire>>
          ELSE RunErr(w, IF r = "connect_err" THEN "dial" ELSE "io")
    /\ UNCHANGED <<supvars, spawned, cc_name, shutdown, datavars, dpvars>>

\* The server answers on a control connection: a hello to the worker's hello,
\* an ack to its Auth.
ServerSends(w) ==
    /\ cc_pc[w] \in {"read_hello", "read_ack"}
    /\ cc_wire[w] = NoFrame
    /\ \E fr \in (IF cc_pc[w] = "read_hello" THEN HelloFrames ELSE AckFrames) :
          cc_wire' = [cc_wire EXCEPT ![w] = fr]
    /\ UNCHANGED <<supvars, spawned, cc_name, cc_pc, shutdown, session_key, cc_err,
                   datavars, dpvars>>

\* a read_hello that returns a hello of any version
ReadHelloAcceptsAnyVersion(fr) == FALSE

\* Whether read_hello returns Err for a hello it has decoded: it does when the
\* proto_version is not the client's.
ReadHelloRejects(fr) == fr.version # CURRENT_PROTO_VERSION

\* read_hello returns.  Err (of the read, or of the version): run() returns it.
\* A hello that is not ControlChannelHello: bail!.  ControlChannelHello(_,
\* nonce): the worker derives session_key = digest(token ++ nonce), writes
\* Auth(session_key) and flushes.
CcReadHello(w) ==
    /\ cc_pc[w] = "read_hello"
    /\ \/ RunErr(w, "io")
       \/ /\ cc_wire[w] # NoFrame
          /\ LET h == cc_wire[w]
             IN IF ReadHelloRejects(h) THEN RunErr(w, "version")
                ELSE IF h.variant # "ControlChannelHello" THEN RunErr(w, "hello")
                ELSE \E wr \in {"ok", "write_err"} :
                        IF wr = "ok"
                        THEN /\ session_key' = [session_key EXCEPT
                                                  ![w] = SessionKey(cc_name[w], h.nonce)]
                             /\ cc_pc' = [cc_pc EXCEPT ![w] = "read_ack"]
                             /\ cc_wire' = [cc_wire EXCEPT ![w] = NoFrame]
                             /\ UNCHANGED cc_err
                        ELSE RunErr(w, "io")
    /\ UNCHANGED <<supvars, spawned, cc_name, shutdown, datavars, dpvars>>

\* a worker that takes any Ack for Ack::Ok
CcReadAckAnyAck(w) ==
    /\ cc_pc[w] = "read_ack"
    /\ \/ RunErr(w, "io")
       \/ /\ cc_wire[w] # NoFrame
          /\ cc_pc' = [cc_pc EXCEPT ![w] = "established"]
          /\ cc_wire' = [cc_wire EXCEPT ![w] = NoFrame]
          /\ UNCHANGED <<cc_err, session_key>>
    /\ UNCHANGED <<supvars, spawned, cc_name, shutdown, datavars, dpvars>>

\* read_ack returns: Ack::Ok establishes the channel, any other Ack is an
\* authentication failure, a read error is an error.
CcReadAck(w) ==
    /\ cc_pc[w] = "read_ack"
    /\ \/ RunErr(w, "io")
       \/ /\ cc_wire[w] # NoFrame
          /\ IF cc_wire[w].variant = "Ack::Ok"
             THEN /\ cc_pc' = [cc_pc EXCEPT ![w] = "established"]
                  /\ cc_wire' = [cc_wire EXCEPT ![w] = NoFrame]
                  /\ UNCHANGED <<cc_err, session_key>>
             ELSE RunErr(w, "auth")
    /\ UNCHANGED <<supvars, spawned, cc_name, shutdown, datavars, dpvars>>

\* args that carry the nonce-independent service token instead of the key
DataChArgsToken(w) == Token(cc_name[w])

\* RunDataChannelArgs.session_key of the workers spawned by w
DataChArgs(w) == session_key[w]

\* The established loop's read_control_cmd branch: CreateDataChannel spawns a
\* data-channel worker, a read error ends run() with Err.
CcCommand(w) ==
    /\ cc_pc[w] = "established"
    /\ \/ /\ dspawned < MaxData
          /\ LET d == dspawned + 1
             IN /\ dspawned' = d
                /\ dc_parent' = [dc_parent EXCEPT ![d] = w]
                /\ dc_key' = [dc_key EXCEPT ![d] = DataChArgs(w)]
                /\ dc_pc' = [dc_pc EXCEPT ![d] = "dial"]
          /\ ncmd' = ncmd + 1
          /\ UNCHANGED <<cc_pc, cc_err, session_key, cc_wire, dc_hello>>
       \/ /\ RunErr(w, "read")
          /\ UNCHANGED datavars
    /\ UNCHANGED <<supvars, spawned, cc_name, shutdown, dpvars>>

\* a shutdown that aborts the data-channel workers the worker has spawned
CcShutdownAbortsChildren(w) ==
    /\ cc_pc[w] = "established"
    /\ Signalled(w)
    /\ cc_pc' = [cc_pc EXCEPT ![w] = "exited"]
    /\ session_key' = [session_key EXCEPT ![w] = 0]
    /\ dc_pc' = [d \in DataWorkers |->
                    IF dc_parent[d] = w /\ dc_pc[d] \in {"dial", "read_cmd", "forward"}
                    THEN "failed" ELSE dc_pc[d]]
    /\ UNCHANGED <<supvars, spawned, cc_name, shutdown, cc_err, cc_wire, ncmd, dspawned,
                   dc_parent, dc_key, dc_hello, dpvars>>

\* The established loop's shutdown_rx branch: the one-shot holds a value or is
\* closed; break, run() returns Ok and the worker ends.
CcShutdown(w) ==
    /\ cc_pc[w] = "established"
    /\ Signalled(w)
    /\ cc_pc' = [cc_pc EXCEPT ![w] = "exited"]
    /\ session_key' = [session_key EXCEPT ![w] = 0]
    /\ UNCHANGED <<supvars, spawned, cc_name, shutdown, cc_err, cc_wire, datavars, dpvars>>

\* The one-second sleep ends and the loop calls run() again.
CcSleepDone(w) ==
    /\ cc_pc[w] = "backoff"
    /\ cc_pc' = [cc_pc EXCEPT ![w] = "dial"]
    /\ cc_err' = [cc_err EXCEPT ![w] = "none"]
    /\ UNCHANGED <<supvars, spawned, cc_name, shutdown, session_key, cc_wire, datavars,
                   dpvars>>

(***************************************************************************)
(* A data-channel worker up to its forwarding: do_data_channel_handshake   *)
(* and the read of the DataChannelCmd in run_data_channel.                 *)
(***************************************************************************)
\* a hello that carries the key of the parent's current connection
HelloKeyOfParentNow(d) == session_key[dc_parent[d]]

\* The session_key of the DataChannelHello the worker sends: that of its args.
HelloKey(d) == dc_key[d]

\* connector.connect returns inside retry_notify: connected, the worker writes
\* DataChannelHello(CURRENT_PROTO_VERSION, session_key) and flushes; a failed
\* dial is retried until ten seconds have elapsed.
DcConnect(d) ==
    /\ dc_pc[d] = "dial"
    /\ \E r \in {"ok", "retry", "elapsed", "write_err"} :
          CASE r = "ok" ->
                 /\ dc_hello' = [dc_hello EXCEPT ![d] = HelloKey(d)]
                 /\ dc_pc' = [dc_pc EXCEPT ![d] = "read_cmd"]
            [] r = "retry" -> UNCHANGED <<dc_hello, dc_pc>>
            [] OTHER ->
                 /\ dc_pc' = [dc_pc EXCEPT ![d] = "failed"]
                 /\ UNCHANGED dc_hello
    /\ UNCHANGED <<supvars, spawned, cc_name, cc_pc, shutdown, session_key, cc_err,
                   cc_wire, ncmd, dspawned, dc_parent, dc_key, dpvars>>

\* a worker that starts over when its command cannot be read
DcReadCmdRetries(d) ==
    /\ dc_pc[d] = "read_cmd"
    /\ \E r \in {"cmd", "Err"} :
          dc_pc' = [dc_pc EXCEPT ![d] = IF r = "cmd" THEN "forward" ELSE "dial"]
    /\ UNCHANGED <<supvars, spawned, cc_name, cc_pc, shutdown, session_key, cc_err,
                   cc_wire, ncmd, dspawned, dc_parent, dc_key, dc_hello, dpvars>>

\* read_data_cmd returns: a command starts the forwarding, an error fails the
\* worker.
DcReadCmd(d) ==
    /\ dc_pc[d] = "read_cmd"
    /\ \E r \in {"cmd", "Err"} :
          dc_pc' = [dc_pc EXCEPT ![d] = IF r = "cmd" THEN "forward" ELSE "failed"]
    /\ UNCHANGED <<supvars, spawned, cc_name, cc_pc, shutdown, session_key, cc_err,
                   cc_wire, ncmd, dspawned, dc_parent, dc_key, dc_hello, dpvars>>

\* The forwarding ends, with Ok or with Err (DataSpec has its steps).
DcForwardEnd(d) ==
    /\ dc_pc[d] = "forward"
    /\ \E r \in {"done", "failed"} : dc_pc' = [dc_pc EXCEPT ![d] = r]
    /\ UNCHANGED <<supvars, spawned, cc_name, cc_pc, shutdown, session_key, cc_err,
                   cc_wire, ncmd, dspawned, dc_parent, dc_key, dc_hello, dpvars>>

(***************************************************************************)
(* The data plane at rest, as the control plane's specification keeps it.  *)
(***************************************************************************)
DataIdle ==
    /\ dw_pc = "idle"
    /\ dw_result = "none"
    /\ dw_log = {}
    /\ pkt = NoPkt
    /\ nread = 0
    /\ port_map = [v \in Visitors |-> 0]
    /\ rw_readers = 0
    /\ rw_writer = FALSE
    /\ rw_queue = <<>>
    /\ nfwd = 0
    /\ fw_pc = [f \in Fwds |-> "unborn"]
    /\ fw_from = [f \in Fwds |-> 0]
    /\ fw_result = [f \in Fwds |-> "none"]
    /\ fw_hold = [f \in Fwds |-> 0]
    /\ fw_idle = {}
    /\ inbound = [f \in Fwds |-> <<>>]
    /\ outbound = <<>>
    /\ wr_pc = "unborn"
    /\ wire_out = <<>>
    /\ sock_out = [v \in Visitors |-> <<>>]
    /\ nreply = 0
    /\ conn_failed = {}
    /\ sock_failed = {}

Init == CtlInit /\ DataIdle

Next ==
    \/ RunClientFail
    \/ RunClientStart
    \/ \E name \in Names : ClientAdd(name)
    \/ \E name \in Names : ClientDelete(name)
    \/ OtherEvent
    \/ ShutdownRecv
    \/ \E w \in Workers : CcConnect(w)
    \/ \E w \in Workers : ServerSends(w)
    \/ \E w \in Workers : CcReadHello(w)
    \/ \E w \in Workers : CcReadAck(w)
    \/ \E w \in Workers : CcCommand(w)
    \/ \E w \in Workers : CcShutdown(w)
    \/ \E w \in Workers : CcSleepDone(w)
    \/ \E d \in DataWorkers : DcConnect(d)
    \/ \E d \in DataWorkers : DcReadCmd(d)
    \/ \E d \in DataWorkers : DcForwardEnd(d)

Spec == Init /\ [][Next]_vars


(***************************************************************************)
(* Claims about the control plane, checked under Spec.                     *)
(***************************************************************************)
LiveWorkersOf(name) == {w \in Workers : Live(w) /\ cc_name[w] = name}

\* C1, as claimed: in every reachable state each service name has at most one
\* live control-channel worker (spawned and not yet exited).
C1_AtMostOneLiveWorker ==
    \A name \in Names : Cardinality(LiveWorkersOf(name)) <= 1

\* C1, amended: between two steps of the supervisor each service name has at
\* most one live worker whose one-shot is still Empty, and it is the worker
\* whose handle the map holds for that name; a replaced worker's one-shot is
\* closed, and it may stay live beside its successor.
C1_AtMostOneUnsignalledWorker ==
    \A name \in Names :
        LET open == {w \in LiveWorkersOf(name) : shutdown[w] = "Empty"}
        IN /\ Cardinality(open) <= 1
           /\ open \subseteq {service_handles[name]}
           /\ service_handles[name] # 0 => service_handles[name] \in open

\* C1's case: right after a ClientAdd of an existing name the replaced worker
\* is still live, its one-shot closed, beside the new worker of the map.
C1_Witness ==
    \E w1, w2 \in Workers :
        /\ w1 # w2 /\ cc_name[w1] = cc_name[w2]
        /\ Live(w1) /\ shutdown[w1] = "Closed"
        /\ cc_pc[w2] = "dial" /\ service_handles[cc_name[w2]] = w2

\* The handle of w was removed by a ClientDelete: closed, and no later worker
\* of the same name replaced it.
RemovedByDelete(w) ==
    /\ shutdown[w] = "Closed"
    /\ \A w2 \in Workers : w2 > w => cc_name[w2] # cc_name[w]

\* C2: once ClientDelete has dropped the handle of a worker, that worker never
\* again starts a dial of the server, whatever state it was removed in.
C2_NoDialAfterDelete ==
    [][\A w \in Workers :
          RemovedByDelete(w) => ~(cc_pc[w] # "dial" /\ cc_pc'[w] = "dial")]_vars

\* C3: once the supervisor has received the shutdown broadcast, the next step
\* of every live control-channel worker, from whatever await, is its exit.
C3_ExitAtNextAwait ==
    [][sup_pc = "returned" =>
          \A w \in Workers :
              (Live(w) /\ cc_pc'[w] # cc_pc[w]) => cc_pc'[w] = "exited"]_vars

SendsHello(d) == dc_pc[d] = "dial" /\ dc_pc'[d] = "read_cmd"

\* C5, as claimed: the session_key of a DataChannelHello equals, when the hello
\* is sent, the one of the parent's most recent successful authentication
\* (here: of the connection the parent is established on at that moment).
C5_HelloKeyIsParentsLatest ==
    [][\A d \in DataWorkers :
          (SendsHello(d) /\ cc_pc[dc_parent[d]] = "established")
             => dc_hello'[d] = session_key[dc_parent[d]]]_vars

\* C5, amended: the session_key of a DataChannelHello is the one authenticated
\* on the control connection on which the worker was spawned: the args take
\* the established parent's session_key at the spawn, never change, and the
\* hello carries them, whatever the parent has done since.
C5_HelloKeyIsSpawnTime ==
    [][\A d \in DataWorkers :
          /\ (dc_pc[d] = "unborn" /\ dc_pc'[d] = "dial") =>
                 /\ cc_pc[dc_parent'[d]] = "established"
                 /\ dc_key'[d] = session_key[dc_parent'[d]]
                 /\ \E n \in Nonces :
                        dc_key'[d] = Digest(Concat(Token(cc_name[dc_parent'[d]]), n))
          /\ dc_pc[d] # "unborn" => dc_key'[d] = dc_key[d]
          /\ SendsHello(d) => dc_hello'[d] = dc_key[d]]_vars

\* C5's case: a hello was sent while the parent is established on a later
\* connection with another session_key.
C5_Witness ==
    \E d \in DataWorkers :
        /\ dc_hello[d] # 0
        /\ cc_pc[dc_parent[d]] = "established"
        /\ session_key[dc_parent[d]] # dc_hello[d]

AttemptStates == {"dial", "read_hello", "read_ack", "established"}

\* the connection attempt of w ends in this step
AttemptEnds(w) ==
    /\ cc_pc[w] \in AttemptStates
    /\ cc_pc'[w] \notin AttemptStates

\* C8: while its one-shot is Empty, a worker's every failed attempt (dial
\* error, unexpected hello, rejected authentication, read error) goes to the
\* one-second sleep, the sleep is followed by a new dial, and the worker never
\* exits.
C8_RetryWithoutGivingUp ==
    [][\A w \in Workers :
          shutdown[w] = "Empty" =>
              /\ AttemptEnds(w) => (cc_pc'[w] = "backoff" /\ cc_err'[w] # "none")
              /\ (cc_pc[w] = "backoff" /\ cc_pc'[w] # "backoff") => cc_pc'[w] = "dial"
              /\ cc_pc'[w] = "exited" => cc_pc[w] = "exited"]_vars

\* C8's case: a worker with an Empty one-shot sleeps after a rejected
\* authentication.
C8_Witness ==
    \E w \in Workers :
        cc_pc[w] = "backoff" /\ cc_err[w] = "auth" /\ shutdown[w] = "Empty"

\* C9: run_client returns Err only from a failed startup; after startup it
\* returns only once shutdown_rx.recv() has returned (Ok or Err), and then Ok,
\* with the map drained and shutdown() called on every handle it held.
C9_ReturnsOnlyOnShutdown ==
    /\ [](sup_pc = "returned" =>
            \/ run_result = "Err" /\ spawned = 0 /\ sup_val = "none"
            \/ /\ run_result = "Ok" /\ sup_val # "none"
               /\ \A name \in Names : service_handles[name] = 0
               /\ \A w \in Workers : cc_pc[w] # "unborn" => shutdown[w] # "Empty")
    /\ [](sup_pc # "returned" => run_result = "none")
    /\ [][(sup_pc = "running" /\ sup_pc' = "returned") =>
            \A name \in Names :
                service_handles[name] # 0 => shutdown'[service_handles[name]] = "Sent"]_vars

\* C9's case: the run has returned Ok after a shutdown, having survived a
\* worker that failed and a handle that a ClientDelete dropped.
C9_Witness ==
    /\ sup_pc = "returned" /\ run_result = "Ok"
    /\ \E w1, w2 \in Workers :
          /\ shutdown[w1] = "Sent" /\ cc_pc[w1] = "backoff"
          /\ shutdown[w2] = "Closed"


\* the Auth of w is written in this step
SendsAuth(w) == cc_pc[w] = "read_hello" /\ cc_pc'[w] = "read_ack"

OnConnection(w) == cc_pc[w] \in {"read_ack", "established"}

\* C12: the session_key of the Auth a worker sends is digest(token ++ nonce)
\* for the token of its service and the nonce of the ControlChannelHello it
\* has just read on that connection; it stays the connection's key until the
\* connection ends.
C12_AuthIsDigestOfTokenAndNonce ==
    [][\A w \in Workers :
          /\ SendsAuth(w) =>
                 /\ cc_wire[w].variant = "ControlChannelHello"
                 /\ session_key'[w] = Digest((Token(cc_name[w]) * 4) + cc_wire[w].nonce)
          /\ (OnConnection(w) /\ cc_pc'[w] \in {"read_ack", "established"})
                 => session_key'[w] = session_key[w]
          /\ cc_pc'[w] \notin {"read_ack", "established"} => session_key'[w] = 0]_vars

\* C12's case: a worker that has reconnected has sent an Auth with another
\* key than the one it gave the data-channel worker of its earlier connection.
C12_Witness ==
    \E w \in Workers, d \in DataWorkers :
        /\ dc_parent[d] = w /\ cc_pc[w] = "read_ack"
        /\ session_key[w] # 0 /\ session_key[w] # dc_key[d]

VersionMismatch(w) ==
    /\ cc_pc[w] = "read_hello"
    /\ cc_wire[w] \in HelloFrames
    /\ cc_wire[w].version # CURRENT_PROTO_VERSION

\* C13: a worker that reads a hello of another proto_version than its own
\* sends no Auth on that connection: the connection is dropped with an error,
\* and the worker, its one-shot Empty, sleeps the second and dials again.
C13_VersionMismatchRejected ==
    [][\A w \in Workers :
          /\ (VersionMismatch(w) /\ cc_pc'[w] # cc_pc[w]) =>
                 /\ cc_pc'[w] \in {"backoff", "exited"}
                 /\ session_key'[w] = 0 /\ cc_wire'[w] = NoFrame
                 /\ shutdown[w] = "Empty" =>
                        cc_pc'[w] = "backoff" /\ cc_err'[w] \in {"version", "io"}
          /\ (cc_err[w] = "version" /\ cc_pc'[w] # cc_pc[w]) => cc_pc'[w] = "dial"]_vars

\* C13's case: a worker sleeps after it has read a hello of another version.
C13_Witness ==
    \E w \in Workers :
        cc_pc[w] = "backoff" /\ cc_err[w] = "version" /\ session_key[w] = 0

Running(d) == dc_pc[d] \in {"dial", "read_cmd", "forward"}

\* C14: no step of the supervisor or of a control-channel worker changes a
\* data-channel worker already spawned (its args, its hello, where it is), and
\* such a worker can always take its next step, whatever has become of its
\* parent and of the parent's handle.
C14_DataWorkersDetached ==
    /\ [][\A d \in DataWorkers :
            dc_pc[d] # "unborn" =>
                /\ dc_key'[d] = dc_key[d] /\ dc_parent'[d] = dc_parent[d]
                /\ (dc_pc'[d] # dc_pc[d] \/ dc_hello'[d] # dc_hello[d]) =>
                       UNCHANGED <<sup_pc, service_handles, shutdown, cc_pc>>]_vars
    /\ [](\A d \in DataWorkers :
            Running(d) => ENABLED (DcConnect(d) \/ DcReadCmd(d) \/ DcForwardEnd(d)))

\* C14's case: a data-channel worker has sent its hello and forwards while its
\* parent has exited on the drop of its handle.
C14_Witness ==
    \E d \in DataWorkers :
        /\ dc_pc[d] = "forward"
        /\ cc_pc[dc_parent[d]] = "exited" /\ shutdown[dc_parent[d]] = "Closed"

\* C16: the handling of an event that is neither ClientAdd nor ClientDelete,
\* or of a ClientDelete of a name with no handle, changes nothing of the
\* supervisor and of the workers: the map is the same, no worker is spawned,
\* no one-shot is sent to or closed.
C16_ForeignEventsIgnored ==
    [][ignored' # ignored =>
          UNCHANGED <<sup_pc, run_result, service_handles, spawned, shutdown, cc_name,
                      cc_pc, dspawned, dc_pc>>]_vars

\* C16's case: such an event has been handled while a worker with an Empty
\* one-shot runs and a name has no handle.
C16_Witness ==
    /\ ignored > 0 /\ sup_pc = "running"
    /\ \E name \in Names : service_handles[name] = 0
    /\ \E w \in Workers : cc_pc[w] = "established" /\ shutdown[w] = "Empty"

Moved(w) == cc_pc'[w] # cc_pc[w]

\* C17: on a connection the worker goes from the hello it sent to the hello it
\* reads, to the Auth it sends, to the Ack it reads, in that order; it is
\* established only by Ack::Ok; a data-channel worker is spawned only by an
\* established worker; a hello of another variant and an Ack other than Ok end
\* the attempt, with no data-channel worker spawned.
C17_HandshakeOrder ==
    [][/\ \A w \in Workers :
            /\ (Moved(w) /\ cc_pc'[w] = "read_hello") => cc_pc[w] = "dial"
            /\ (Moved(w) /\ cc_pc'[w] = "read_ack") =>
                   /\ cc_pc[w] = "read_hello"
                   /\ cc_wire[w].variant = "ControlChannelHello"
                   /\ session_key[w] = 0 /\ session_key'[w] # 0
            /\ (Moved(w) /\ cc_pc'[w] = "established") =>
                   cc_pc[w] = "read_ack" /\ cc_wire[w].variant = "Ack::Ok"
            /\ (Moved(w) /\ cc_pc[w] = "read_hello"
                         /\ cc_wire[w].variant = "DataChannelHello") =>
                   cc_pc'[w] \in {"backoff", "exited"} /\ dspawned' = dspawned
            /\ (Moved(w) /\ cc_pc[w] = "read_ack"
                         /\ cc_wire[w].variant = "Ack::AuthFailed") =>
                   cc_pc'[w] \in {"backoff", "exited"} /\ dspawned' = dspawned
       /\ \A d \in DataWorkers :
            (dc_pc[d] = "unborn" /\ dc_pc'[d] # "unborn") =>
                /\ cc_pc[dc_parent'[d]] = "established"
                /\ session_key[dc_parent'[d]] # 0]_vars

\* C17's case: one worker sleeps after an Ack that was not Ok, with no
\* data-channel worker of its own, while an established one has spawned one.
C17_Witness ==
    \E w1, w2 \in Workers, d \in DataWorkers :
        /\ cc_pc[w1] = "backoff" /\ cc_err[w1] = "auth"
        /\ cc_pc[w2] = "established" /\ dc_parent[d] = w2 /\ dc_pc[d] # "unborn"

\* the steps a data-channel worker takes, none of which goes back
DcSteps ==
    {<<"unborn", "dial">>, <<"dial", "read_cmd">>, <<"dial", "failed">>,
     <<"read_cmd", "forward">>, <<"read_cmd", "failed">>,
     <<"forward", "done">>, <<"forward", "failed">>}

DataInit ==
    /\ CtlInit
    /\ dw_pc = "read_cmd"
    /\ dw_result = "none"
    /\ dw_log = {}
    /\ pkt = NoPkt
    /\ nread = 0
    /\ port_map = [v \in Visitors |-> 0]
    /\ rw_readers = 0
    /\ rw_writer = FALSE
    /\ rw_queue = <<>>
    /\ nfwd = 0
    /\ fw_pc = [f \in Fwds |-> "unborn"]
    /\ fw_from = [f \in Fwds |-> 0]
    /\ fw_result = [f \in Fwds |-> "none"]
    /\ fw_hold = [f \in Fwds |-> 0]
    /\ fw_idle = {}
    /\ inbound = [f \in Fwds |-> <<>>]
    /\ outbound = <<>>
    /\ wr_pc = "unborn"
    /\ wire_out = <<>>
    /\ sock_out = [v \in Visitors |-> <<>>]
    /\ nreply = 0
    /\ conn_failed = {}
    /\ sock_failed = {}

rdvars == <<pkt, nread, port_map, rw_readers, rw_writer, rw_queue, nfwd, conn_failed>>
fwvars == <<fw_pc, fw_from, fw_result, fw_hold, fw_idle, inbound, sock_out, nreply,
            sock_failed>>
wrvars == <<outbound, wr_pc, wire_out>>

\* run_data_channel returns Err(err): the task spawned in ControlChannel::run
\* logs it with error!.
DwFail(err) ==
    /\ dw_pc' = "returned"
    /\ dw_result' = "Err"
    /\ dw_log' = dw_log \cup {err}

\* read_data_cmd returns: StartForwardTcp goes to the dial of local_addr,
\* StartForwardUdp makes the port map and the outbound channel and spawns the
\* writer task, an error fails the worker.
DwReadCmd ==
    /\ dw_pc = "read_cmd"
    /\ \E r \in {"StartForwardTcp", "StartForwardUdp", "Err"} :
          CASE r = "StartForwardTcp" ->
                 /\ dw_pc' = "tcp_dial"
                 /\ UNCHANGED <<dw_result, dw_log, wr_pc>>
            [] r = "StartForwardUdp" ->
                 /\ dw_pc' = "rd_read"
                 /\ wr_pc' = "run"
                 /\ UNCHANGED <<dw_result, dw_log>>
            [] OTHER -> DwFail("read_data_cmd") /\ UNCHANGED wr_pc
    /\ UNCHANGED <<rdvars, fwvars, outbound, wire_out, ctlvars>>

\* TcpStream::connect(local_addr) returns: Ok goes to the splice, Err is
\* returned with "?".
DwTcpDial ==
    /\ dw_pc = "tcp_dial"
    /\ \E ok \in BOOLEAN :
          IF ok THEN dw_pc' = "tcp_splice" /\ UNCHANGED <<dw_result, dw_log>>
          ELSE DwFail("local_connect")
    /\ UNCHANGED <<rdvars, fwvars, wrvars, ctlvars>>

\* copy_bidirectional ends; its result is dropped and the worker returns Ok.
DwTcpSplice ==
    /\ dw_pc = "tcp_splice"
    /\ dw_pc' = "returned"
    /\ dw_result' = "Ok"
    /\ UNCHANGED <<dw_log, rdvars, fwvars, wrvars, ctlvars>>

(***************************************************************************)
(* The port map's tokio RwLock: write-preferring, its waiters served first *)
(* in, first out.  Only the reader loop holds a guard across an await.     *)
(***************************************************************************)
\* the task at the head of the queue may take a read guard
ReadGrant(t) == rw_queue # <<>> /\ Head(rw_queue) = t /\ ~rw_writer

\* the task at the head of the queue may take the write guard
WriteGrant(t) == rw_queue # <<>> /\ Head(rw_queue) = t /\ ~rw_writer /\ rw_readers = 0

(***************************************************************************)
(* The reader loop of run_data_channel_for_udp.                            *)
(***************************************************************************)
\* a port map that goes with the reader loop
RdReadDropsMap ==
    /\ dw_pc = "rd_read"
    /\ \/ /\ DwFail("read_udp_traffic")
          /\ port_map' = [v \in Visitors |-> 0]
          /\ UNCHANGED <<pkt, nread, rw_readers, rw_writer, rw_queue, nfwd, conn_failed>>
       \/ /\ nread < MaxFrames
          /\ \E v \in Visitors : pkt' = [from |-> v, data |-> nread + 1]
          /\ nread' = nread + 1
          /\ rw_queue' = Append(rw_queue, 0)
          /\ dw_pc' = "rd_lock1"
          /\ UNCHANGED <<dw_result, dw_log, port_map, rw_readers, rw_writer, nfwd,
                         conn_failed>>
    /\ UNCHANGED <<fwvars, wrvars, ctlvars>>

\* The read of a frame returns: an error ends the worker (dropping its
\* outbound sender); a frame is kept and the first read guard is asked for.
RdRead ==
    /\ dw_pc = "rd_read"
    /\ \/ /\ DwFail("read_udp_traffic")
          /\ UNCHANGED rdvars
       \/ /\ nread < MaxFrames
          /\ \E v \in Visitors : pkt' = [from |-> v, data |-> nread + 1]
          /\ nread' = nread + 1
          /\ rw_queue' = Append(rw_queue, 0)
          /\ dw_pc' = "rd_lock1"
          /\ UNCHANGED <<dw_result, dw_log, port_map, rw_readers, rw_writer, nfwd,
                         conn_failed>>
    /\ UNCHANGED <<fwvars, wrvars, ctlvars>>

\* port_map.read() of line 265 is granted.
RdLock1 ==
    /\ dw_pc = "rd_lock1"
    /\ ReadGrant(0)
    /\ rw_queue' = Tail(rw_queue)
    /\ rw_readers' = rw_readers + 1
    /\ dw_pc' = "rd_check"
    /\ UNCHANGED <<dw_result, dw_log, pkt, nread, port_map, rw_writer, nfwd, conn_failed,
                   fwvars, wrvars, ctlvars>>

\* a reader loop that takes the entry of a forwarder no longer in its loop for
\* no entry
RdCheckByLiveness ==
    /\ dw_pc = "rd_check"
    /\ IF port_map[pkt.from] = 0 \/ fw_pc[port_map[pkt.from]] # "loop"
       THEN /\ rw_readers' = 0
            /\ dw_pc' = "rd_wlock"
       ELSE /\ UNCHANGED rw_readers
            /\ dw_pc' = "rd_lock2"
    /\ rw_queue' = Append(rw_queue, 0)
    /\ UNCHANGED <<dw_result, dw_log, pkt, nread, port_map, rw_writer, nfwd, conn_failed,
                   fwvars, wrvars, ctlvars>>

\* m.get(&packet.from): with no entry the guard is dropped and the write
\* guard asked for; with an entry the guard is kept (m is only shadowed at
\* line 301) and a second read guard asked for.
RdCheck ==
    /\ dw_pc = "rd_check"
    /\ IF port_map[pkt.from] = 0
       THEN /\ rw_readers' = 0
            /\ dw_pc' = "rd_wlock"
       ELSE /\ UNCHANGED rw_readers
            /\ dw_pc' = "rd_lock2"
    /\ rw_queue' = Append(rw_queue, 0)
    /\ UNCHANGED <<dw_result, dw_log, pkt, nread, port_map, rw_writer, nfwd, conn_failed,
                   fwvars, wrvars, ctlvars>>

\* port_map.write() of line 280 is granted; udp_connect is awaited under it.
RdWLock ==
    /\ dw_pc = "rd_wlock"
    /\ WriteGrant(0)
    /\ rw_queue' = Tail(rw_queue)
    /\ rw_writer' = TRUE
    /\ dw_pc' = "rd_connect"
    /\ UNCHANGED <<dw_result, dw_log, pkt, nread, port_map, rw_readers, nfwd, conn_failed,
                   fwvars, wrvars, ctlvars>>

\* a udp_connect error returned to the caller with "?"
UdpConnectErrIsFatal == TRUE

\* Whether an Err of udp_connect ends the worker: the Err arm only logs.
UdpConnectErrEndsWorker == FALSE

\* udp_connect returns.  Ok: the sender of a new inbound channel is inserted
\* for packet.from and a forwarder spawned.  Err: logged.  The write guard is
\* dropped and the read guard of line 301 asked for.
RdConnect ==
    /\ dw_pc = "rd_connect"
    /\ \E ok \in BOOLEAN :
          IF ok
          THEN LET f == nfwd + 1
               IN /\ nfwd' = f
                  /\ port_map' = [port_map EXCEPT ![pkt.from] = f]
                  /\ fw_pc' = [fw_pc EXCEPT ![f] = "loop"]
                  /\ fw_from' = [fw_from EXCEPT ![f] = pkt.from]
                  /\ rw_writer' = FALSE
                  /\ rw_queue' = Append(rw_queue, 0)
                  /\ dw_pc' = "rd_lock2"
                  /\ UNCHANGED <<dw_result, dw_log, conn_failed>>
          ELSE /\ conn_failed' = conn_failed \cup {pkt.data}
               /\ rw_writer' = FALSE
               /\ IF UdpConnectErrEndsWorker
                  THEN /\ DwFail("udp_connect")
                       /\ UNCHANGED rw_queue
                  ELSE /\ dw_log' = dw_log \cup {"udp_connect"}
                       /\ rw_queue' = Append(rw_queue, 0)
                       /\ dw_pc' = "rd_lock2"
                       /\ UNCHANGED dw_result
               /\ UNCHANGED <<nfwd, port_map, fw_pc, fw_from>>
    /\ UNCHANGED <<pkt, nread, rw_readers, fw_result, fw_hold, fw_idle, inbound, sock_out,
                   nreply, sock_failed, wrvars, ctlvars>>

\* The end of an iteration of the reader loop: its guards are dropped.
RdIterationEnds ==
    /\ rw_readers' = 0
    /\ pkt' = NoPkt
    /\ dw_pc' = "rd_read"

\* port_map.read() of line 301 is granted and the entry looked up again:
\* with a sender tx.send is awaited, with none the frame is dropped.
RdLock2 ==
    /\ dw_pc = "rd_lock2"
    /\ ReadGrant(0)
    /\ rw_queue' = Tail(rw_queue)
    /\ IF port_map[pkt.from] = 0
       THEN RdIterationEnds
       ELSE /\ rw_readers' = rw_readers + 1
            /\ dw_pc' = "rd_send"
            /\ UNCHANGED pkt
    /\ UNCHANGED <<dw_result, dw_log, nread, port_map, rw_writer, nfwd, conn_failed,
                   fwvars, wrvars, ctlvars>>

\* tx.send(packet.data) returns: the payload is queued once the inbound
\* channel has room; with the receiver dropped it returns Err, which is
\* ignored.
RdSend ==
    /\ dw_pc = "rd_send"
    /\ LET f == port_map[pkt.from]
       IN IF fw_pc[f] = "returned"
          THEN UNCHANGED inbound
          ELSE /\ Len(inbound[f]) < UDP_SENDQ_SIZE
               /\ inbound' = [inbound EXCEPT ![f] = Append(@, pkt.data)]
    /\ RdIterationEnds
    /\ UNCHANGED <<dw_result, dw_log, nread, port_map, rw_writer, rw_queue, nfwd,
                   conn_failed, fw_pc, fw_from, fw_result, fw_hold, fw_idle, sock_out,
                   nreply, sock_failed, wrvars, ctlvars>>


(***************************************************************************)
(* run_udp_forwarder, one task per forwarder spawned.                      *)
(***************************************************************************)
\* The forwarder returns: its locals are dropped, among them inbound_rx with
\* whatever it still holds.
FwReturns(f, result) ==
    /\ fw_pc' = [fw_pc EXCEPT ![f] = "returned"]
    /\ fw_result' = [fw_result EXCEPT ![f] = result]
    /\ fw_hold' = [fw_hold EXCEPT ![f] = 0]
    /\ inbound' = [inbound EXCEPT ![f] = <<>>]

\* inbound_rx.recv() yields a payload and s.send(&data) returns: Ok loops, Err
\* is returned with "?".
FwInbound(f) ==
    /\ fw_pc[f] = "loop"
    /\ inbound[f] # <<>>
    /\ LET data == Head(inbound[f])
       IN \E ok \in BOOLEAN :
             IF ok
             THEN /\ sock_out' = [sock_out EXCEPT ![fw_from[f]] = Append(@, data)]
                  /\ inbound' = [inbound EXCEPT ![f] = Tail(@)]
                  /\ UNCHANGED <<fw_pc, fw_result, fw_hold, sock_failed>>
             ELSE /\ sock_failed' = sock_failed \cup {data}
                  /\ FwReturns(f, "Err")
                  /\ UNCHANGED sock_out
    /\ UNCHANGED <<dw_pc, dw_result, dw_log, rdvars, fw_from, fw_idle, nreply, wrvars,
                   ctlvars>>

\* Every sender of the forwarder's inbound channel is gone and the channel is
\* empty: inbound_rx.recv() yields None.
InboundClosed(f) ==
    /\ inbound[f] = <<>>
    /\ \A v \in Visitors : port_map[v] # f

\* The loop is left with break and port_map.write() is asked for.
FwLeavesLoop(f, idle) ==
    /\ fw_pc' = [fw_pc EXCEPT ![f] = "evict"]
    /\ fw_idle' = IF idle THEN fw_idle \cup {f} ELSE fw_idle
    /\ rw_queue' = Append(rw_queue, f)
    /\ UNCHANGED <<dw_pc, dw_result, dw_log, pkt, nread, port_map, rw_readers, rw_writer,
                   nfwd, conn_failed, fw_from, fw_result, fw_hold, inbound, sock_out,
                   nreply, sock_failed, wrvars, ctlvars>>

\* break: inbound_rx.recv() yields None, or s.recv returns Err.
FwBreak(f) ==
    /\ fw_pc[f] = "loop"
    /\ \E why \in {"closed", "recv_err"} : why = "closed" => InboundClosed(f)
    /\ FwLeavesLoop(f, FALSE)

\* break: the sleep of UDP_TIMEOUT seconds armed in this iteration ends, the
\* two other branches having stayed pending.
FwTimeout(f) ==
    /\ fw_pc[f] = "loop"
    /\ inbound[f] = <<>>
    /\ FwLeavesLoop(f, TRUE)

\* outbount_tx.send(t) returns: Err, returned with "?", once the writer task
\* has dropped the receiver; Ok once the outbound channel has room.
FwSendOutbound(f, data) ==
    IF wr_pc = "exited"
    THEN /\ FwReturns(f, "Err")
         /\ UNCHANGED outbound
    ELSE IF Len(outbound) < UDP_SENDQ_SIZE
    THEN /\ outbound' = Append(outbound, [from |-> fw_from[f], data |-> data])
         /\ fw_pc' = [fw_pc EXCEPT ![f] = "loop"]
         /\ fw_hold' = [fw_hold EXCEPT ![f] = 0]
         /\ UNCHANGED <<fw_result, inbound>>
    ELSE /\ fw_pc' = [fw_pc EXCEPT ![f] = "out_send"]
         /\ fw_hold' = [fw_hold EXCEPT ![f] = data]
         /\ UNCHANGED <<fw_result, inbound, outbound>>

\* s.recv yields a datagram of the local service, which is wrapped in a
\* UdpTraffic with the forwarder's from and sent to the outbound channel.
FwReply(f) ==
    /\ fw_pc[f] = "loop"
    /\ nreply < MaxReplies
    /\ nreply' = nreply + 1
    /\ FwSendOutbound(f, nreply + 1)
    /\ UNCHANGED <<dw_pc, dw_result, dw_log, rdvars, fw_from, fw_idle, sock_out,
                   sock_failed, wr_pc, wire_out, ctlvars>>

\* The send to the full outbound channel, awaited, returns.
FwOutSend(f) ==
    /\ fw_pc[f] = "out_send"
    /\ wr_pc = "exited" \/ Len(outbound) < UDP_SENDQ_SIZE
    /\ FwSendOutbound(f, fw_hold[f])
    /\ UNCHANGED <<dw_pc, dw_result, dw_log, rdvars, fw_from, fw_idle, sock_out, nreply,
                   sock_failed, wr_pc, wire_out, ctlvars>>

\* port_map.write() of line 354 is granted: the entry of from is removed and
\* the forwarder returns Ok.
FwEvict(f) ==
    /\ fw_pc[f] = "evict"
    /\ WriteGrant(f)
    /\ rw_queue' = Tail(rw_queue)
    /\ port_map' = [port_map EXCEPT ![fw_from[f]] = 0]
    /\ FwReturns(f, "Ok")
    /\ UNCHANGED <<dw_pc, dw_result, dw_log, pkt, nread, rw_readers, rw_writer, nfwd,
                   conn_failed, fw_from, fw_idle, sock_out, nreply, sock_failed, wrvars,
                   ctlvars>>

(***************************************************************************)
(* The writer task of run_data_channel_for_udp.                            *)
(***************************************************************************)
\* a writer task that takes the newest frame of the channel
WrWriteNewest ==
    /\ wr_pc = "run"
    /\ outbound # <<>>
    /\ \E ok \in BOOLEAN :
          IF ok
          THEN /\ wire_out' = Append(wire_out, outbound[Len(outbound)])
               /\ outbound' = SubSeq(outbound, 1, Len(outbound) - 1)
               /\ UNCHANGED wr_pc
          ELSE /\ wr_pc' = "exited"
               /\ outbound' = <<>>
               /\ UNCHANGED wire_out
    /\ UNCHANGED <<dw_pc, dw_result, dw_log, rdvars, fwvars, ctlvars>>

\* outbound_rx.recv() yields a frame and its write returns: Ok loops, Err
\* breaks, dropping the receiver and what it holds.
WrWrite ==
    /\ wr_pc = "run"
    /\ outbound # <<>>
    /\ \E ok \in BOOLEAN :
          IF ok
          THEN /\ wire_out' = Append(wire_out, Head(outbound))
               /\ outbound' = Tail(outbound)
               /\ UNCHANGED wr_pc
          ELSE /\ wr_pc' = "exited"
               /\ outbound' = <<>>
               /\ UNCHANGED wire_out
    /\ UNCHANGED <<dw_pc, dw_result, dw_log, rdvars, fwvars, ctlvars>>

\* outbound_rx.recv() yields None: the reader loop and every forwarder have
\* dropped their senders and the channel is empty.
WrClosed ==
    /\ wr_pc = "run"
    /\ outbound = <<>>
    /\ dw_pc = "returned"
    /\ \A f \in Fwds : fw_pc[f] \in {"unborn", "returned"}
    /\ wr_pc' = "exited"
    /\ UNCHANGED <<dw_pc, dw_result, dw_log, rdvars, fwvars, outbound, wire_out, ctlvars>>

DataNext ==
    \/ DwReadCmd
    \/ DwTcpDial
    \/ DwTcpSplice
    \/ RdRead
    \/ RdLock1
    \/ RdCheck
    \/ RdWLock
    \/ RdConnect
    \/ RdLock2
    \/ RdSend
    \/ \E f \in Fwds : FwInbound(f)
    \/ \E f \in Fwds : FwBreak(f)
    \/ \E f \in Fwds : FwTimeout(f)
    \/ \E f \in Fwds : FwReply(f)
    \/ \E f \in Fwds : FwOutSend(f)
    \/ \E f \in Fwds : FwEvict(f)
    \/ WrWrite
    \/ WrClosed

DataSpec == DataInit /\ [][DataNext]_vars

\* The steps the runtime takes by itself: a task that can go on is polled,
\* the lock is granted to the head of its queue, a channel with room takes
\* the send.  What the server, the local service and the timers do is not
\* included.
DataFairness ==
    /\ WF_vars(RdLock1) /\ WF_vars(RdCheck) /\ WF_vars(RdWLock) /\ WF_vars(RdConnect)
    /\ WF_vars(RdLock2) /\ WF_vars(RdSend) /\ WF_vars(WrWrite) /\ WF_vars(WrClosed)
    /\ \A f \in Fwds :
          WF_vars(FwInbound(f)) /\ WF_vars(FwOutSend(f)) /\ WF_vars(FwEvict(f))

DataFairSpec == DataSpec /\ DataFairness


(***************************************************************************)
(* Claims about the UDP data channel, checked under DataSpec.              *)
(***************************************************************************)
\* C4: a forwarder that has returned, by whatever exit path, has removed the
\* port-map entry of its visitor.
C4_EntryRemovedOnExit ==
    \A f \in Fwds : fw_pc[f] = "returned" => port_map[fw_from[f]] # f

InSeq(x, seq) == \E i \in 1..Len(seq) : seq[i] = x

\* C6: no payload read by the reader loop is lost: unless its udp_connect
\* failed or the local socket refused it, each is written to a local socket or
\* still on its way there (in the reader's hands or in an inbound channel).
C6_EveryFrameReachesSocket ==
    \A p \in 1..nread :
        \/ p \in conn_failed
        \/ p \in sock_failed
        \/ pkt.data = p
        \/ \E f \in Fwds : InSeq(p, inbound[f])
        \/ \E v \in Visitors : InSeq(p, sock_out[v])

TcpDialFails == dw_pc = "tcp_dial" /\ dw_pc' \notin {"tcp_dial", "tcp_splice"}

UdpDialFails == dw_pc = "rd_connect" /\ dw_pc' # "rd_connect" /\ nfwd' = nfwd

\* C7, as claimed: a failed dial of local_addr, in TCP and in UDP mode, is
\* logged and fails the data-channel worker.
C7_LocalDialErrorFailsWorker ==
    [][(TcpDialFails \/ UdpDialFails) =>
          /\ dw_log' # dw_log
          /\ dw_result' = "Err"]_vars

\* C7, amended: in TCP mode a failed dial of local_addr fails the worker with
\* an error that is logged; in UDP mode a failed udp_connect is logged and the
\* frame dropped with no entry made, and the worker does not fail: its reader
\* loop goes on.
C7_LocalDialErrorByMode ==
    [][/\ TcpDialFails =>
            /\ "local_connect" \in dw_log'
            /\ dw_result' = "Err" /\ dw_pc' = "returned"
       /\ UdpDialFails =>
            /\ "udp_connect" \in dw_log'
            /\ dw_result' = "none" /\ dw_pc' = "rd_lock2"
            /\ port_map' = port_map
            /\ ~rw_writer']_vars

\* C7's case: after a failed udp_connect the worker has gone on and has read a
\* later frame.
C7_Witness ==
    /\ "udp_connect" \in dw_log
    /\ dw_result = "none"
    /\ \E p \in conn_failed : pkt.data > p

\* C10: a forwarder whose idle timer has fired, while the reader loop is
\* handling no frame of its visitor, eventually returns with its entry
\* removed, whatever the reader loop and the other forwarders do.
C10_IdleForwarderEvicted ==
    \A f \in Fwds :
        (f \in fw_idle /\ fw_pc[f] = "evict" /\ pkt.from # fw_from[f])
            ~> (fw_pc[f] = "returned" /\ port_map[fw_from[f]] # f)

LiveForwardersOf(v) ==
    {f \in Fwds : fw_from[f] = v /\ fw_pc[f] \in {"loop", "out_send", "evict"}}

\* C11: each visitor has at most one live forwarder; an entry of the port map
\* is inserted only by the reader loop, at its udp_connect; and a forwarder
\* that returns through its eviction changes no entry but its own visitor's,
\* which held its own sender and not a later forwarder's.
C11_OneForwarderPerVisitor ==
    /\ [](\A v \in Visitors : Cardinality(LiveForwardersOf(v)) <= 1)
    /\ [][\A v \in Visitors :
            /\ port_map'[v] \notin {0, port_map[v]} =>
                   /\ dw_pc = "rd_connect" /\ pkt.from = v
                   /\ fw_pc[port_map'[v]] = "unborn"
            /\ (port_map[v] # 0 /\ port_map'[v] = 0) =>
                   LET f == port_map[v]
                   IN /\ fw_from[f] = v
                      /\ fw_pc[f] = "evict" /\ fw_pc'[f] = "returned"
                      /\ \A u \in Visitors \ {v} : port_map'[u] = port_map[u]]_vars

\* C11's case: a visitor's first forwarder has evicted its entry and returned,
\* and a later forwarder of the same visitor runs with its own entry.
C11_Witness ==
    \E f1, f2 \in Fwds :
        /\ f1 < f2 /\ fw_from[f1] = fw_from[f2]
        /\ fw_pc[f1] = "returned" /\ fw_result[f1] = "Ok"
        /\ fw_pc[f2] = "loop" /\ port_map[fw_from[f2]] = f2

Increasing(seq) == \A i, j \in 1..Len(seq) : i < j => seq[i] < seq[j]

\* C15: the writer task writes the frames of the outbound channel from its
\* head, and the channel grows only at its tail, so that the frames reach the
\* server in the order they were enqueued; the payloads written to a
\* visitor's socket are taken from the head of the inbound channel of its
\* forwarder, which grows at its tail by the payload of the frame of that
\* visitor the reader loop is handling, so that they are in the order read,
\* none twice.
C15_UdpOrdering ==
    /\ [][/\ wire_out' # wire_out =>
                /\ outbound # <<>>
                /\ wire_out' = Append(wire_out, Head(outbound))
                /\ outbound' = Tail(outbound)
          /\ Len(outbound') > Len(outbound) =>
                /\ SubSeq(outbound', 1, Len(outbound)) = outbound
                /\ Len(outbound') = Len(outbound) + 1
          /\ \A v \in Visitors :
                sock_out'[v] # sock_out[v] =>
                    \E f \in Fwds :
                        /\ fw_from[f] = v /\ inbound[f] # <<>>
                        /\ sock_out'[v] = Append(sock_out[v], Head(inbound[f]))
                        /\ inbound'[f] = Tail(inbound[f])
          /\ \A f \in Fwds :
                Len(inbound'[f]) > Len(inbound[f]) =>
                    /\ inbound'[f] = Append(inbound[f], pkt.data)
                    /\ pkt.from = fw_from[f]]_vars
    /\ [](\A v \in Visitors : Increasing(sock_out[v]))
    /\ [](\A i, j \in 1..Len(wire_out) : i # j => wire_out[i] # wire_out[j])

\* C15's case: two frames were written to the server after they had been in
\* the outbound channel together, and two payloads to one visitor's socket.
C15_Witness ==
    /\ Len(wire_out) >= 2 /\ Len(outbound) >= 1
    /\ wire_out[1].from # wire_out[2].from
    /\ \E v \in Visitors : Len(sock_out[v]) >= 2

\* the reader loop holds its first read guard and awaits the second behind a
\* forwarder that awaits the write guard
ReaderBehindForwarder ==
    /\ dw_pc = "rd_lock2" /\ rw_readers > 0
    /\ rw_queue # <<>> /\ Head(rw_queue) # 0

\* the reader loop holds its read guards and awaits the send to the full
\* inbound channel of a forwarder that has left its loop for the write guard
ReaderSendsToLeaving ==
    /\ dw_pc = "rd_send"
    /\ LET f == port_map[pkt.from]
       IN fw_pc[f] = "evict" /\ Len(inbound[f]) = UDP_SENDQ_SIZE

\* C19: in no reachable state are the reader loop and a forwarder blocked on
\* each other: the reader holding a read guard a forwarder's write waits for,
\* while it awaits its second read behind that write or a send that only that
\* forwarder could make room for.
C19_NoMutualBlock == ~(ReaderBehindForwarder \/ ReaderSendsToLeaving)

InLoop(f) == fw_pc[f] \in {"loop", "out_send"}

\* C20: a forwarder in its loop has its sender in the port map, so that
\* inbound_rx.recv() cannot yield None; the end of the reader loop changes
\* nothing of the forwarders, which go on; a forwarder leaves its loop only on
\* its idle timeout, on an error of its socket, or on a failed outbound send.
C20_ForwardersOutliveReader ==
    /\ [](\A f \in Fwds : InLoop(f) => port_map[fw_from[f]] = f /\ ~InboundClosed(f))
    /\ [](\A f \in Fwds :
            (dw_pc = "returned" /\ fw_pc[f] = "loop") =>
                ENABLED (FwInbound(f) \/ FwTimeout(f)))
    /\ [][/\ (dw_pc # "returned" /\ dw_pc' = "returned") =>
                UNCHANGED <<fw_pc, port_map, inbound, outbound, wr_pc>>
          /\ \A f \in Fwds :
                (InLoop(f) /\ ~InLoop(f)') =>
                    \/ fw_pc'[f] = "evict" /\ f \in fw_idle' /\ inbound[f] = <<>>
                    \/ fw_pc'[f] = "evict" /\ fw_idle' = fw_idle
                    \/ /\ fw_pc'[f] = "returned" /\ fw_result'[f] = "Err"
                       /\ sock_failed' # sock_failed \/ wr_pc = "exited"]_vars

\* C20's case: the reader loop has ended with an error and a forwarder is
\* still in its loop, its entry in the map, after it has served its visitor.
C20_Witness ==
    /\ dw_pc = "returned" /\ dw_result = "Err"
    /\ \E f \in Fwds :
          /\ fw_pc[f] = "loop" /\ port_map[fw_from[f]] = f
          /\ sock_out[fw_from[f]] # <<>>

=============================================================================
